---- MODULE Spec2Model ----
(***************************************************************************)
(* MedConnect (main.py): a Streamlit script that asks an external model    *)
(* for a medical specialty and filters Doctor_Directory.csv by specialty,  *)
(* location and a simulated availability draw.                             *)
(*                                                                         *)
(* Every user interaction re-runs the script from the top against          *)
(* st.session_state, so each action below is one interaction: the run the  *)
(* click or edit starts, together with the run st.rerun() starts after it. *)
(*                                                                         *)
(* Text the code inspects character by character (Department, District,    *)
(* Upazila, Address, the specialty, the location, the model's response) is *)
(* a sequence of one-character strings; text the code only stores and      *)
(* echoes (the contents of the input widgets) is an opaque string.         *)
(***************************************************************************)
EXTENDS Naturals, Integers, Sequences, FiniteSets, TLC

VARIABLES
    gemini_api_key,     \* os.getenv('GEMINI_API_KEY') is set
    csv_file,           \* Doctor_Directory.csv on disk: Missing or a table
    keywords,           \* the four input widgets and the location widget
    questions,
    text_description,
    uploaded_files,
    location_input,
    specialty,          \* st.session_state.*
    user_input,
    analysis_started,
    analysis_complete,
    doctors_loaded,
    doctor_db,
    location,
    doctors_found,
    available_doctors,
    messages,           \* st.error / st.warning / exception boxes on the page
    reads,              \* number of pd.read_csv calls so far
    analyze_calls,      \* number of analyze_symptoms calls so far
    concern,            \* the analyze_symptoms call of the last interaction
    query,              \* the filter_doctors call of the last interaction
    stored_for,         \* specialty of the query that set available_doctors
    view_unavailable,   \* what the page showed after the last failed load
    view_empty          \* what the page showed after the last empty result

vars == <<gemini_api_key, csv_file, keywords, questions, text_description,
          uploaded_files, location_input, specialty, user_input,
          analysis_started, analysis_complete, doctors_loaded, doctor_db,
          location, doctors_found, available_doctors, messages, reads,
          analyze_calls, concern, query, stored_for, view_unavailable,
          view_empty>>

-----------------------------------------------------------------------------
(* Bounds *)

MaxRows == 2

MaxReads == 4

MaxCalls == 2

-----------------------------------------------------------------------------
(* Values *)

\* An optional value is the empty set (Python's None, an attribute that was
\* never set, a file that cannot be read) or the singleton of the value.
None == {}

Some(v) == {v}

The(o) == CHOOSE v \in o : TRUE

Missing == {}

-----------------------------------------------------------------------------
(* str.lower, str.strip, str.contains *)

Range(s) == {s[i] : i \in DOMAIN s}

UpperCase ==
    <<"A", "B", "C", "D", "E", "F", "G", "H", "I", "J", "K", "L", "M",
      "N", "O", "P", "Q", "R", "S", "T", "U", "V", "W", "X", "Y", "Z">>

LowerCase ==
    <<"a", "b", "c", "d", "e", "f", "g", "h", "i", "j", "k", "l", "m",
      "n", "o", "p", "q", "r", "s", "t", "u", "v", "w", "x", "y", "z">>

ToLower == [c \in Range(UpperCase) |->
               LowerCase[CHOOSE i \in DOMAIN UpperCase : UpperCase[i] = c]]

LowerChar(c) == IF c \in DOMAIN ToLower THEN ToLower[c] ELSE c

Lower(s) == [i \in DOMAIN s |-> LowerChar(s[i])]

Whitespace == {" ", "\n", "\t"}

RECURSIVE LStrip(_)
LStrip(s) ==
    IF s # <<>> /\ Head(s) \in Whitespace THEN LStrip(Tail(s)) ELSE s

RECURSIVE RStrip(_)
RStrip(s) ==
    IF s # <<>> /\ s[Len(s)] \in Whitespace
    THEN RStrip(SubSeq(s, 1, Len(s) - 1))
    ELSE s

Strip(s) == RStrip(LStrip(s))

\* x in s, for str: the plain substring test
Substring(p, s) ==
    \E i \in 0..(Len(s) - Len(p)) : SubSeq(s, i + 1, i + Len(p)) = p

\* re.compile(pat) for patterns over letters, space, "." and "(": an
\* opening parenthesis that is never closed is re.error
ReCompiles(pat) == "(" \notin Range(pat)

ReMatchChar(p, c) == \/ p = "." /\ c # "\n"
                     \/ p = c

\* re.search(pat, s) is not None, for a pattern that compiles
ReSearch(pat, s) ==
    \E i \in 0..(Len(s) - Len(pat)) :
        \A k \in 1..Len(pat) : ReMatchChar(pat[k], s[i + k])

\* Series.str.contains(pat) on one cell: regex=True is the default
StrContains(s, pat) == ReSearch(pat, s)

-----------------------------------------------------------------------------
(* Department names and the synonym table of filter_doctors *)

Cardiology == <<"C", "a", "r", "d", "i", "o", "l", "o", "g", "y">>

Dermatology == <<"D", "e", "r", "m", "a", "t", "o", "l", "o", "g", "y">>

Neurology == <<"N", "e", "u", "r", "o", "l", "o", "g", "y">>

Orthopedics == <<"O", "r", "t", "h", "o", "p", "e", "d", "i", "c", "s">>

Pediatrics == <<"P", "e", "d", "i", "a", "t", "r", "i", "c", "s">>

Psychiatry == <<"P", "s", "y", "c", "h", "i", "a", "t", "r", "y">>

Gynecology == <<"G", "y", "n", "e", "c", "o", "l", "o", "g", "y">>

GeneralPractice == <<"G", "e", "n", "e", "r", "a", "l", " ", "P", "r", "a", "c", "t", "i", "c", "e">>

GeneralMedicine == <<"G", "e", "n", "e", "r", "a", "l", " ", "M", "e", "d", "i", "c", "i", "n", "e">>

GeneralSurgery == <<"G", "e", "n", "e", "r", "a", "l", " ", "S", "u", "r", "g", "e", "r", "y">>

Gastroenterology == <<"G", "a", "s", "t", "r", "o", "e", "n", "t", "e", "r", "o", "l", "o", "g", "y">>

Oncology == <<"O", "n", "c", "o", "l", "o", "g", "y">>

Ophthalmology == <<"O", "p", "h", "t", "h", "a", "l", "m", "o", "l", "o", "g", "y">>

ENT == <<"E", "N", "T">>

Urology == <<"U", "r", "o", "l", "o", "g", "y">>

Nephrology == <<"N", "e", "p", "h", "r", "o", "l", "o", "g", "y">>

SingleDepartments ==
    {Cardiology, Dermatology, Neurology, Orthopedics, Pediatrics,
     Psychiatry, Gynecology, GeneralMedicine, GeneralSurgery,
     Gastroenterology, Oncology, Ophthalmology, ENT, Urology, Nephrology}

similar_keys == {Lower(d) : d \in SingleDepartments} \cup {Lower(GeneralPractice)}

similar_specialties ==
    [k \in similar_keys |->
        IF k = Lower(GeneralPractice)
        THEN {GeneralMedicine, GeneralSurgery}
        ELSE {d \in SingleDepartments : Lower(d) = k}]

-----------------------------------------------------------------------------
(* filter_doctors *)

\* doctor_db['Department'].str.lower() == specialty.lower()
SpecialtyFilter(db, sp) ==
    {i \in DOMAIN db : Lower(db[i].Department) = Lower(sp)}

\* doctor_db['Department'].isin(similar_departments)
IsinFilter(db, departments) ==
    {i \in DOMAIN db : db[i].Department \in departments}

\* filtered_doctors after the specialty step, as the set of kept row labels
FilteredBySpecialty(db, sp) ==
    LET exact == SpecialtyFilter(db, sp)
    IN  IF Cardinality(exact) = 0 /\ Lower(sp) \in DOMAIN similar_specialties
        THEN IsinFilter(db, similar_specialties[Lower(sp)])
        ELSE exact

\* the boolean mask built over the whole of doctor_db
LocationFilter(db, loc) ==
    LET location_lower == Lower(loc)
    IN  {i \in DOMAIN db :
            \/ StrContains(Lower(db[i].District), location_lower)
            \/ StrContains(Lower(db[i].Upazila), location_lower)
            \/ StrContains(Lower(db[i].Address), location_lower)}

\* filtered_doctors[location_filter]
FilteredByLocation(db, filtered, loc) ==
    IF loc # <<>> THEN filtered \cap LocationFilter(db, loc) ELSE filtered

\* the rows of a selection in table order, as iterrows() visits them
RECURSIVE RowOrder(_, _, _)
RowOrder(rows, i, n) ==
    IF i > n THEN <<>>
    ELSE IF i \in rows THEN <<i>> \o RowOrder(rows, i + 1, n)
    ELSE RowOrder(rows, i + 1, n)

\* a slip in the loop: the doctor goes to the front of the list
AppendAvailableFront(available, doctor, is_available) ==
    IF is_available THEN <<doctor>> \o available ELSE available

AppendAvailable(available, doctor, is_available) ==
    IF is_available THEN Append(available, doctor) ELSE available

\* the availability loop; draws[k] is the outcome of random.random() > 0.3
\* for the k-th row visited
RECURSIVE AvailabilityLoop(_, _, _, _)
AvailabilityLoop(rows, draws, k, available) ==
    IF k > Len(rows) THEN available
    ELSE AvailabilityLoop(rows, draws, k + 1,
                          AppendAvailable(available, rows[k], draws[k]))

\* filter_doctors from the specialty step to the location step, once
\* doctor_db is not None: the candidate rows, or re.error from str.contains
Candidates(db, sp, loc) ==
    IF loc # <<>> /\ ~ReCompiles(Lower(loc))
    THEN [kind |-> "re.error", candidates |-> <<>>]
    ELSE [kind |-> "DataFrame",
          candidates |-> RowOrder(FilteredByLocation(db,
                                      FilteredBySpecialty(db, sp), loc),
                                  1, Len(db))]

\* the availability step and the return value
Available(c, draws) ==
    [kind |-> c.kind, candidates |-> c.candidates,
     rows |-> AvailabilityLoop(c.candidates, draws, 1, <<>>)]

-----------------------------------------------------------------------------
(* load_doctor_database, on the three things it touches *)

Store == [doctor_db |-> doctor_db, doctors_loaded |-> doctors_loaded,
          reads |-> reads]

load_doctor_database(file, s) ==
    IF file = Missing
    THEN [s EXCEPT !.reads = @ + 1]
    ELSE [doctor_db |-> Some(The(file)), doctors_loaded |-> TRUE,
          reads |-> s.reads + 1]

\* the two lines of filter_doctors that make sure the table is there
EnsureLoaded(file, s) ==
    IF s.doctor_db = None THEN load_doctor_database(file, s) ELSE s

\* filter_doctors on a store that went through EnsureLoaded; draws[k] is the
\* outcome of random.random() > 0.3 for the k-th candidate
filter_doctors(s, sp, loc, draws) ==
    IF s.doctor_db = None
    THEN [kind |-> "None", candidates |-> <<>>, rows |-> <<>>]
    ELSE Available(Candidates(The(s.doctor_db), sp, loc), draws)

\* the draws filter_doctors can make: one per candidate row
FilterDraws(s, sp, loc) ==
    IF s.doctor_db = None THEN {<<>>}
    ELSE [1..Len(Candidates(The(s.doctor_db), sp, loc).candidates) -> BOOLEAN]

-----------------------------------------------------------------------------
(* analyze_symptoms *)

PromptLines(ui) ==
    (IF "keywords" \in DOMAIN ui
     THEN <<[label |-> "Keywords", value |-> ui["keywords"]]>> ELSE <<>>)
    \o
    (IF "questions" \in DOMAIN ui
     THEN <<[label |-> "Questions", value |-> ui["questions"]]>> ELSE <<>>)
    \o
    (IF "text_description" \in DOMAIN ui
     THEN <<[label |-> "Description", value |-> ui["text_description"]]>>
     ELSE <<>>)
    \o
    (IF "uploaded_files" \in DOMAIN ui
     THEN <<[label |-> "User also uploaded",
             count |-> Len(ui["uploaded_files"])]>>
     ELSE <<>>)

\* response: what model.generate_content(prompt) does, an exception or a text
analyze_symptoms(ui, response) ==
    [prompt |-> PromptLines(ui),
     raised |-> response.kind = "error",
     ret    |-> Strip(response.text)]

-----------------------------------------------------------------------------
(* The script, top to bottom *)

KeyNotFound == "Gemini API Key Not Found"

PleaseProvideInput ==
    "Please provide at least one form of input about your medical concern."

PleaseEnterLocation == "Please enter your location to find available doctors."

NoDoctorsWarning ==
    "No doctors found matching your criteria. Please try a different location or specialty."

AnalyzeException == "Exception in analyze_symptoms"

FilterException == "Exception in filter_doctors"

\* line 14-17: shown by every run
StartupMessages(key) == IF key THEN {} ELSE {KeyNotFound}

SetItem(d, k, v) == [x \in DOMAIN d \cup {k} |-> IF x = k THEN v ELSE d[x]]

\* the four tabs: each writes its widget into user_input when it is non-empty
Tabs(ui, kw, qs, td, uf) ==
    LET u1 == IF kw # "" THEN SetItem(ui, "keywords", kw) ELSE ui
        u2 == IF qs # "" THEN SetItem(u1, "questions", qs) ELSE u1
        u3 == IF td # "" THEN SetItem(u2, "text_description", td) ELSE u2
    IN  IF uf # <<>> THEN SetItem(u3, "uploaded_files", uf) ELSE u3

\* the fields populated in the interaction itself
Populated(kw, qs, td, uf) ==
    {f \in {"keywords"} : kw # ""} \cup {f \in {"questions"} : qs # ""}
    \cup {f \in {"text_description"} : td # ""}
    \cup {f \in {"uploaded_files"} : uf # <<>>}

\* the boxes a run shows when it reaches the end of the script
EndOfScript(key, found) ==
    StartupMessages(key) \cup (IF found = Some(FALSE) THEN {NoDoctorsWarning} ELSE {})

\* the "Find Available Doctors" button and the location widget are on the
\* page when the last run got as far as the analysis result
FindRendered == analysis_complete /\ AnalyzeException \notin messages

\* what the page shows of a query: the doctors section and the boxes
View(found, available, msgs) ==
    [doctors_found |-> found,
     doctors |-> IF found = Some(TRUE) THEN available ELSE None,
     messages |-> msgs]

-----------------------------------------------------------------------------
(* Inputs *)

KeywordInputs == {"", "fever"}

QuestionInputs == {"", "Why do I cough?"}

DescriptionInputs == {"", "Sharp pain for two days"}

FileInputs == {<<>>, <<"scan.pdf">>}

ModelResponses ==
    {[kind |-> "error", text |-> <<>>],
     [kind |-> "text", text |-> <<"C", "a", "r", "d", "i", "o", "l", "o", "g", "y", "\n">>],
     [kind |-> "text", text |-> <<"G", "e", "n", "e", "r", "a", "l", " ", "P", "r", "a", "c", "t", "i", "c", "e">>],
     [kind |-> "text", text |-> <<" ", "\n">>]}

Row(dep, dis, upa, adr) ==
    [Department |-> dep, District |-> dis, Upazila |-> upa, Address |-> adr]

\* the directory of the session model
Directory ==
    <<Row(Cardiology, <<"D", "h", "a", "k", "a">>, <<"S", "a", "v", "a", "r">>, <<"G", "r", "e", "e", "n", " ", "R", "o", "a", "d">>),
      Row(GeneralMedicine, <<"B", "o", "g", "u", "r", "a">>, <<"S", "h", "e", "r", "p", "u", "r">>, <<"D", "h", "a", "k", "a", " ", "R", "o", "a", "d">>)>>

SessionFiles == {Missing, Some(Directory)}

SessionLocations == {<<>>, <<"d", "h", "a", "k", "a">>, <<"(">>}

EmptyDict == [k \in {} |-> ""]

-----------------------------------------------------------------------------
(* The session *)

Init ==
    /\ gemini_api_key \in BOOLEAN
    /\ csv_file \in SessionFiles
    /\ keywords = ""
    /\ questions = ""
    /\ text_description = ""
    /\ uploaded_files = <<>>
    /\ location_input = <<>>
    /\ specialty = None
    /\ user_input = EmptyDict
    /\ analysis_started = FALSE
    /\ analysis_complete = FALSE
    /\ doctors_loaded = FALSE
    /\ doctor_db = None
    /\ location = None
    /\ doctors_found = None
    /\ available_doctors = None
    /\ messages = StartupMessages(gemini_api_key)
    /\ reads = 0
    /\ analyze_calls = 0
    /\ concern = None
    /\ query = None
    /\ stored_for = None
    /\ view_unavailable = None
    /\ view_empty = None

\* a run started by editing one of the input widgets: no button is pressed
Rerun(kw, qs, td, uf) ==
    /\ keywords' = kw
    /\ questions' = qs
    /\ text_description' = td
    /\ uploaded_files' = uf
    /\ user_input' = Tabs(user_input, kw, qs, td, uf)
    /\ messages' = EndOfScript(gemini_api_key, doctors_found)
    /\ concern' = None
    /\ query' = None
    /\ UNCHANGED <<gemini_api_key, csv_file, location_input, specialty,
                   analysis_started, analysis_complete, doctors_loaded,
                   doctor_db, location, doctors_found, available_doctors,
                   reads, analyze_calls, stored_for, view_unavailable,
                   view_empty>>

EditKeywords ==
    \E v \in KeywordInputs \ {keywords} :
        Rerun(v, questions, text_description, uploaded_files)

EditQuestions ==
    \E v \in QuestionInputs \ {questions} :
        Rerun(keywords, v, text_description, uploaded_files)

EditDescription ==
    \E v \in DescriptionInputs \ {text_description} :
        Rerun(keywords, questions, v, uploaded_files)

EditFiles ==
    \E v \in FileInputs \ {uploaded_files} :
        Rerun(keywords, questions, text_description, v)

EditLocation ==
    /\ FindRendered
    /\ \E v \in SessionLocations \ {location_input} : location_input' = v
    /\ user_input' = Tabs(user_input, keywords, questions, text_description,
                          uploaded_files)
    /\ messages' = EndOfScript(gemini_api_key, doctors_found)
    /\ concern' = None
    /\ query' = None
    /\ UNCHANGED <<gemini_api_key, csv_file, keywords, questions,
                   text_description, uploaded_files, specialty,
                   analysis_started, analysis_complete, doctors_loaded,
                   doctor_db, location, doctors_found, available_doctors,
                   reads, analyze_calls, stored_for, view_unavailable,
                   view_empty>>

\* "Analyze My Symptoms"
ClickAnalyze ==
    /\ analyze_calls < MaxCalls
    /\ LET ui == Tabs(user_input, keywords, questions, text_description,
                      uploaded_files)
       IN  /\ user_input' = ui
           /\ IF DOMAIN ui = {}
              THEN /\ messages' = {PleaseProvideInput}
                                  \cup EndOfScript(gemini_api_key, doctors_found)
                   /\ concern' = None
                   /\ UNCHANGED <<specialty, analysis_started,
                                  analysis_complete, analyze_calls,
                                  location_input>>
              ELSE \E response \in ModelResponses :
                     LET call == analyze_symptoms(ui, response)
                     IN  /\ analysis_started' = TRUE
                         /\ analyze_calls' = analyze_calls + 1
                         /\ concern' = Some([user_input |-> ui,
                                             populated |-> Populated(keywords,
                                                 questions, text_description,
                                                 uploaded_files),
                                             prompt |-> call.prompt,
                                             raised |-> call.raised,
                                             ret |-> call.ret])
                         /\ IF call.raised
                            THEN \* the run stops in the handler; the widgets
                                 \* below it are not drawn and lose their value
                                 /\ messages' = StartupMessages(gemini_api_key)
                                                \cup {AnalyzeException}
                                 /\ location_input' = <<>>
                                 /\ UNCHANGED <<specialty, analysis_complete>>
                            ELSE \* st.rerun()
                                 /\ specialty' = Some(call.ret)
                                 /\ analysis_complete' = TRUE
                                 /\ messages' = EndOfScript(gemini_api_key,
                                                            doctors_found)
                                 /\ UNCHANGED location_input
    /\ query' = None
    /\ UNCHANGED <<gemini_api_key, csv_file, keywords, questions,
                   text_description, uploaded_files, doctors_loaded,
                   doctor_db, location, doctors_found, available_doctors,
                   reads, stored_for, view_unavailable, view_empty>>

QueryRecord(sp, loc, out) ==
    [specialty |-> sp, location |-> loc, kind |-> out.kind,
     candidates |-> out.candidates, rows |-> out.rows]

\* "Find Available Doctors"
ClickFind ==
    /\ FindRendered
    /\ reads + 2 <= MaxReads
    /\ user_input' = Tabs(user_input, keywords, questions, text_description,
                          uploaded_files)
    /\ IF location_input = <<>>
       THEN /\ messages' = {PleaseEnterLocation}
                           \cup EndOfScript(gemini_api_key, doctors_found)
            /\ query' = None
            /\ UNCHANGED <<location, doctors_loaded, doctor_db, reads,
                           doctors_found, available_doctors, stored_for,
                           view_unavailable, view_empty>>
       ELSE LET s1 == IF ~doctors_loaded
                      THEN load_doctor_database(csv_file, Store)
                      ELSE Store
                s2 == EnsureLoaded(csv_file, s1)
                sp == The(specialty)
            IN  /\ location' = Some(location_input)
                /\ doctor_db' = s2.doctor_db
                /\ doctors_loaded' = s2.doctors_loaded
                /\ reads' = s2.reads
                /\ \E draws \in FilterDraws(s2, sp, location_input) :
                     LET out == filter_doctors(s2, sp, location_input, draws)
                     IN  /\ query' = Some(QueryRecord(sp, location_input, out))
                         /\ IF out.kind = "re.error"
                            THEN /\ messages' = StartupMessages(gemini_api_key)
                                                \cup {FilterException}
                                 /\ UNCHANGED <<doctors_found,
                                                available_doctors, stored_for,
                                                view_unavailable, view_empty>>
                            ELSE /\ IF out.kind # "None" /\ Len(out.rows) > 0
                                    THEN /\ available_doctors' = Some(out.rows)
                                         /\ doctors_found' = Some(TRUE)
                                         /\ stored_for' = Some(sp)
                                    ELSE /\ doctors_found' = Some(FALSE)
                                         /\ UNCHANGED <<available_doctors,
                                                        stored_for>>
                                 \* st.rerun()
                                 /\ messages' = EndOfScript(gemini_api_key,
                                                            doctors_found')
                                 /\ view_unavailable' =
                                      IF out.kind = "None"
                                      THEN Some(View(doctors_found',
                                                     available_doctors',
                                                     messages'))
                                      ELSE view_unavailable
                                 /\ view_empty' =
                                      IF out.kind = "DataFrame" /\ out.rows = <<>>
                                      THEN Some(View(doctors_found',
                                                     available_doctors',
                                                     messages'))
                                      ELSE view_empty
    /\ concern' = None
    /\ UNCHANGED <<gemini_api_key, csv_file, keywords, questions,
                   text_description, uploaded_files, location_input,
                   specialty, analysis_started, analysis_complete,
                   analyze_calls>>

\* Doctor_Directory.csv appears, disappears or is repaired between two
\* interactions
ReplaceFile ==
    /\ \E f \in SessionFiles \ {csv_file} : csv_file' = f
    /\ UNCHANGED <<gemini_api_key, keywords, questions, text_description,
                   uploaded_files, location_input, specialty, user_input,
                   analysis_started, analysis_complete, doctors_loaded,
                   doctor_db, location, doctors_found, available_doctors,
                   messages, reads, analyze_calls, concern, query,
                   stored_for, view_unavailable, view_empty>>

Next ==
    \/ EditKeywords
    \/ EditQuestions
    \/ EditDescription
    \/ EditFiles
    \/ EditLocation
    \/ ClickAnalyze
    \/ ClickFind
    \/ ReplaceFile

Spec == Init /\ [][Next]_vars

-----------------------------------------------------------------------------
(* filter_doctors on its own: any table, any specialty, any location *)

Departments ==
    {Cardiology, GeneralMedicine, Lower(GeneralMedicine), GeneralSurgery,
     GeneralPractice}

Places ==
    {<<<<"D", "h", "a", "k", "a">>, <<"S", "a", "v", "a", "r">>, <<"G", "r", "e", "e", "n", " ", "R", "o", "a", "d">>>>,
     <<<<"B", "o", "g", "u", "r", "a">>, <<"S", "h", "e", "r", "p", "u", "r">>, <<"D", "h", "a", "k", "a", " ", "R", "o", "a", "d">>>>}

Rows == {Row(d, p[1], p[2], p[3]) : d \in Departments, p \in Places}

Tables == UNION {[1..n -> Rows] : n \in 0..MaxRows}

SpecialtyInputs ==
    {<<"g", "e", "n", "e", "r", "a", "l", " ", "p", "r", "a", "c", "t", "i", "c", "e">>, <<"G", "e", "n", "e", "r", "a", "l", " ", "P", "r", "a", "c", "t", "i", "c", "e">>, <<"G", "E", "N", "E", "R", "A", "L", " ", "P", "R", "A", "C", "T", "I", "C", "E">>,
     <<"c", "a", "r", "d", "i", "o", "l", "o", "g", "y">>, <<"A", "c", "u", "p", "u", "n", "c", "t", "u", "r", "e">>}

Locations == {<<>>, <<"d", "h", "a", "k", "a">>, <<"S", "H", "E", "R", "P", "U", "R">>, <<"S", "y", "l", "h", "e", "t">>, <<".">>, <<"(">>}

InitFilter ==
    /\ gemini_api_key = TRUE
    /\ csv_file \in {Missing} \cup {Some(t) : t \in Tables}
    /\ keywords = ""
    /\ questions = ""
    /\ text_description = ""
    /\ uploaded_files = <<>>
    /\ location_input = <<>>
    /\ specialty \in {Some(sp) : sp \in SpecialtyInputs}
    /\ user_input = EmptyDict
    /\ analysis_started = FALSE
    /\ analysis_complete = FALSE
    /\ doctors_loaded = FALSE
    /\ doctor_db = None
    /\ location = None
    /\ doctors_found = None
    /\ available_doctors = None
    /\ messages = {}
    /\ reads = 0
    /\ analyze_calls = 0
    /\ concern = None
    /\ query = None
    /\ stored_for = None
    /\ view_unavailable = None
    /\ view_empty = None

\* filter_doctors(specialty, loc, preferred_date, preferred_time)
CallFilterDoctors ==
    /\ reads < MaxReads
    /\ \E loc \in Locations :
         LET s1 == EnsureLoaded(csv_file, Store)
             sp == The(specialty)
         IN  /\ doctor_db' = s1.doctor_db
             /\ doctors_loaded' = s1.doctors_loaded
             /\ reads' = s1.reads
             /\ \E draws \in FilterDraws(s1, sp, loc) :
                  query' = Some(QueryRecord(sp, loc,
                                            filter_doctors(s1, sp, loc, draws)))
    /\ UNCHANGED <<gemini_api_key, csv_file, keywords, questions,
                   text_description, uploaded_files, location_input,
                   specialty, user_input, analysis_started,
                   analysis_complete, location, doctors_found,
                   available_doctors, messages, analyze_calls, concern,
                   stored_for, view_unavailable, view_empty>>

NextFilter == CallFilterDoctors

SpecFilter == InitFilter /\ [][NextFilter]_vars

-----------------------------------------------------------------------------
(* Properties of filter_doctors, checked under SpecFilter *)

\* the location is a plain substring of one of the three lower-cased fields
LocationOccurs(row, loc) ==
    \/ Substring(Lower(loc), Lower(row.District))
    \/ Substring(Lower(loc), Lower(row.Upazila))
    \/ Substring(Lower(loc), Lower(row.Address))

\* no record of the table matches the specialty and the location
NothingMatches(db, sp, loc) ==
    \A i \in FilteredBySpecialty(db, sp) :
        loc # <<>> /\ ~LocationOccurs(db[i], loc)

\* C1: a filter_doctors call on a loaded table in which nothing matches the
\* specialty and the location does not raise, it returns an empty DataFrame
C1_UnmatchedReturnsEmpty ==
    \A q \in query :
        (q.kind # "None" /\ NothingMatches(The(doctor_db), q.specialty, q.location))
            => (q.kind = "DataFrame" /\ q.rows = <<>>)

\* C2: for "general practice" in any letter case and no location, the
\* candidates are exactly the rows whose Department is "General Medicine" or
\* "General Surgery", compared without regard to case
C2_GeneralPracticeUnion ==
    \A q \in query :
        (/\ q.kind = "DataFrame"
         /\ Lower(q.specialty) = Lower(GeneralPractice)
         /\ q.location = <<>>)
            => Range(q.candidates) =
                  {i \in DOMAIN The(doctor_db) :
                      Lower(The(doctor_db)[i].Department)
                          \in {Lower(GeneralMedicine), Lower(GeneralSurgery)}}

\* C3: with a non-empty location the candidates are exactly the
\* specialty-matched rows in which the lower-cased location is a substring of
\* the lower-cased District, Upazila or Address
C3_LocationIsSubstringOr ==
    \A q \in query :
        (q.kind = "DataFrame" /\ q.location # <<>>)
            => Range(q.candidates) =
                  {i \in FilteredBySpecialty(The(doctor_db), q.specialty) :
                      LocationOccurs(The(doctor_db)[i], q.location)}

\* C4: the rows filter_doctors returns are a subsequence of the candidates:
\* none added, none twice, table order kept, never more than the candidates
C4_ResultIsSubsequence ==
    \A q \in query :
        q.kind = "DataFrame"
            => /\ Range(q.rows) \subseteq Range(q.candidates)
               /\ \A i, j \in DOMAIN q.rows : i < j => q.rows[i] < q.rows[j]
               /\ Len(q.rows) <= Len(q.candidates)

\* C4 witness: a query with two candidates of which the draws keep both
C4_Witness ==
    \E q \in query :
        q.kind = "DataFrame" /\ Len(q.candidates) = 2 /\ Len(q.rows) = 2

-----------------------------------------------------------------------------
(* Properties of the session *)

\* C5: Doctor_Directory.csv is read at most once in a session
C5_ReadAtMostOnce == reads <= 1

\* C6: analyze_symptoms never returns an empty string, and the specialty in
\* the session state is never the empty label
C6_NeverEmptyLabel ==
    /\ \A c \in concern : ~c.raised => c.ret # <<>>
    /\ specialty # Some(<<>>)

\* C7: without GEMINI_API_KEY, analyze_symptoms is never called
C7_NoKeyNoCall == ~gemini_api_key => analyze_calls = 0

\* C8: the page after a query whose directory load failed differs from the
\* page after a query that found no matching doctor
C8_FailureDistinctFromEmpty ==
    \/ view_unavailable = None
    \/ view_empty = None
    \/ view_unavailable # view_empty

\* C9: the concern handed to analyze_symptoms holds only fields that are
\* populated in the interaction that makes the call, and at least one
C9_ConcernIsCurrent ==
    \A c \in concern :
        /\ DOMAIN c.user_input \subseteq c.populated
        /\ c.populated # {}

\* C10: when the doctors list is on the page, available_doctors is non-empty
\* and comes from a query for the specialty now in the session state
C10_ListMatchesSpecialty ==
    doctors_found = Some(TRUE)
        => /\ available_doctors # None
           /\ \A a \in available_doctors : a # <<>>
           /\ stored_for = specialty

====
